---- MODULE Spec2Model ----
(***************************************************************************)
(* Model of the bill extraction pipeline: app/extractor.py                 *)
(* (OllamaBillExtractor) driven by the HTTP handler of app/main.py, which  *)
(* calls the one module-level extractor object.                            *)
(*                                                                         *)
(* Python strings that the code inspects (URL, content-type, item names)   *)
(* are sequences of one-character strings, so that lower(), strip(), `in`  *)
(* and endswith() are computed and not assumed.                            *)
(***************************************************************************)
EXTENDS Integers, Sequences, FiniteSets, TLC

(* ------------------------------ bounds --------------------------------- *)

\* largest number of pages a rasterized PDF has
MaxPages == 3

\* how many temporary files may be left behind before the model stops
\* exploring further leaks
MaxLeaks == 1

\* pages per document when two calls are in flight together
MaxConcPages == 2

\* pages and items per page of the documents given to deduplicate_items
\* alone
MaxDedupPages == 2
MaxDedupItems == 2

\* pages per document when the backend may answer anything
MaxReplyPages == 2

\* pages per document in the specification with fairness
MaxLivePages == 2

\* items of the records given to determine_page_type alone
MaxTypeItems == 3

(* --------------------------- string helpers ---------------------------- *)

UpperChars == <<"A", "B", "C", "D", "E", "F", "G", "H", "I", "J", "K", "L", "M",
                "N", "O", "P", "Q", "R", "S", "T", "U", "V", "W", "X", "Y", "Z">>

LowerChars == <<"a", "b", "c", "d", "e", "f", "g", "h", "i", "j", "k", "l", "m",
                "n", "o", "p", "q", "r", "s", "t", "u", "v", "w", "x", "y", "z">>

Whitespace == {" ", "\t", "\n", "\r"}

\* the lowercase letter of every uppercase letter
LowerOf ==
    [ch \in {UpperChars[k] : k \in 1..Len(UpperChars)} |->
        LowerChars[CHOOSE k \in 1..Len(UpperChars) : UpperChars[k] = ch]]

LowerChar(ch) == IF ch \in DOMAIN LowerOf THEN LowerOf[ch] ELSE ch

\* str.lower()
Lower(s) == [k \in 1..Len(s) |-> LowerChar(s[k])]

\* str.strip(): drop leading and trailing whitespace
Strip(s) ==
    LET keep == {k \in 1..Len(s) : s[k] \notin Whitespace}
    IN  IF keep = {} THEN <<>>
        ELSE LET lo == CHOOSE k \in keep : \A j \in keep : k <= j
                 hi == CHOOSE k \in keep : \A j \in keep : k >= j
             IN  SubSeq(s, lo, hi)

\* `sub in s` for strings
Contains(s, sub) ==
    \E k \in 0..(Len(s) - Len(sub)) : SubSeq(s, k + 1, k + Len(sub)) = sub

\* s.endswith(suf)
EndsWith(s, suf) ==
    /\ Len(suf) <= Len(s)
    /\ SubSeq(s, Len(s) - Len(suf) + 1, Len(s)) = suf

\* s.startswith(pre)
StartsWith(s, pre) ==
    /\ Len(pre) <= Len(s)
    /\ SubSeq(s, 1, Len(pre)) = pre

\* dict.get(k, default) on a dict modelled as a function with string keys
Get(d, k, default) == IF k \in DOMAIN d THEN d[k] ELSE default

(* ------------------------- download inputs ----------------------------- *)

Url_pdf == <<"h", "t", "t", "p", ":", "/", "/", "h", "/", "b", ".", "p", "d", "f">>
Url_PDF == <<"h", "t", "t", "p", ":", "/", "/", "h", "/", "B", ".", "P", "D", "F">>
Url_png == <<"h", "t", "t", "p", ":", "/", "/", "h", "/", "b", ".", "p", "n", "g">>
Url_jpg == <<"h", "t", "t", "p", ":", "/", "/", "h", "/", "b", ".", "j", "p", "g">>
Url_jpeg == <<"h", "t", "t", "p", ":", "/", "/", "h", "/", "b", ".", "j", "p", "e", "g">>
Url_query == <<"h", "t", "t", "p", ":", "/", "/", "h", "/", "b", "?", "s", "=", "1">>

Urls == {Url_pdf, Url_PDF, Url_png, Url_jpg, Url_jpeg, Url_query}

\* documents a request may carry besides the URLs above: an https URL, and
\* four that the handler's validation turns away
Doc_https == <<"h", "t", "t", "p", "s", ":", "/", "/", "h", "/", "b">>
Doc_empty == <<>>
Doc_ftp == <<"f", "t", "p", ":", "/", "/", "h", "/", "b", ".", "p", "d", "f">>
Doc_bare == <<"h", "/", "b", ".", "p", "d", "f">>
Doc_HTTP == <<"H", "T", "T", "P", ":", "/", "/", "h", "/", "b">>

Documents == Urls \cup {Doc_https, Doc_empty, Doc_ftp, Doc_bare, Doc_HTTP}

Scheme_http == <<"h", "t", "t", "p", ":", "/", "/">>
Scheme_https == <<"h", "t", "t", "p", "s", ":", "/", "/">>

Ct_pdf == <<"a", "p", "p", "l", "i", "c", "a", "t", "i", "o", "n", "/", "p", "d", "f">>
Ct_png == <<"i", "m", "a", "g", "e", "/", "p", "n", "g">>
Ct_jpeg == <<"i", "m", "a", "g", "e", "/", "j", "p", "e", "g">>
Ct_jpg == <<"i", "m", "a", "g", "e", "/", "j", "p", "g">>
Ct_html == <<"t", "e", "x", "t", "/", "h", "t", "m", "l">>
\* response.headers.get('content-type', '') when the header is absent
Ct_absent == <<>>

ContentTypes == {Ct_pdf, Ct_png, Ct_jpeg, Ct_jpg, Ct_html, Ct_absent}

S_pdf == <<"p", "d", "f">>
S_png == <<"p", "n", "g">>
S_jpg == <<"j", "p", "g">>
S_jpeg == <<"j", "p", "e", "g">>
Ext_pdf == <<".", "p", "d", "f">>
Ext_png == <<".", "p", "n", "g">>
Ext_jpg == <<".", "j", "p", "g">>
Ext_jpeg == <<".", "j", "p", "e", "g">>

\* download_document, "Determine file extension"
InferExt(content_type, url) ==
    IF Contains(content_type, S_pdf) \/ EndsWith(Lower(url), Ext_pdf)
    THEN Ext_pdf
    ELSE IF Contains(content_type, S_png) \/ EndsWith(Lower(url), Ext_png)
    THEN Ext_png
    ELSE IF \/ Contains(content_type, S_jpg)
            \/ Contains(content_type, S_jpeg)
            \/ EndsWith(Lower(url), Ext_jpg)
            \/ EndsWith(Lower(url), Ext_jpeg)
    THEN Ext_jpg
    ELSE Ext_pdf

\* exceptions of requests.get / raise_for_status (type and str(e))
GetErrors ==
    { [type |-> "ConnectionError", msg |-> "connection refused"],
      [type |-> "Timeout",         msg |-> "read timed out"],
      [type |-> "HTTPError",       msg |-> "404 Client Error"] }

\* NamedTemporaryFile(...) fails: no file was created
TempFileError == [type |-> "OSError", msg |-> "cannot create temporary file"]

\* temp_file.write(...) fails: the file exists already
WriteError == [type |-> "OSError", msg |-> "No space left on device"]

\* convert_from_path / Image.open fail
ConvertErrors ==
    { [type |-> "PDFPageCountError",      msg |-> "Unable to get page count"],
      [type |-> "UnidentifiedImageError", msg |-> "cannot identify image file"] }

\* image.save fails on a lazily opened, truncated image
EncodeError == [type |-> "OSError", msg |-> "image file is truncated"]

(* --------------------------- items and replies ------------------------- *)

\* JSON numbers: an int or a float with a numeric value
IntNum(v) == [ty |-> "int", val |-> v]
FloatNum(v) == [ty |-> "float", val |-> v]

\* a JSON string and JSON null where a number is expected
StrNum(s) == [ty |-> "str", val |-> s]
Null == [ty |-> "null", val |-> 0]

Digits == <<"0", "1", "2", "3", "4", "5", "6", "7", "8", "9">>

DigitOf == [ch \in {Digits[k] : k \in 1..Len(Digits)} |->
               (CHOOSE k \in 1..Len(Digits) : Digits[k] = ch) - 1]

\* the string is a run of decimal digits, the literals float() accepts among
\* the strings of this model
IsNumeral(s) == s # <<>> /\ \A k \in 1..Len(s) : s[k] \in DOMAIN DigitOf

RECURSIVE ParseDigits(_)
ParseDigits(s) ==
    IF s = <<>> THEN 0
    ELSE 10 * ParseDigits(SubSeq(s, 1, Len(s) - 1)) + DigitOf[s[Len(s)]]

\* float(x) for a JSON number or a string that holds a number
Float(x) ==
    [ty |-> "float", val |-> IF x.ty = "str" THEN ParseDigits(x.val) ELSE x.val]

\* a JSON value of the model is an object (a dict) when it is not one of the
\* tagged scalars above
IsObject(v) == "ty" \notin DOMAIN v

Name_Xray == <<"X", "-", "R", "a", "y">>
Name_xray_sp == <<" ", "x", "-", "r", "a", "y", " ">>
Name_Syrup == <<"S", "y", "r", "u", "p", " ", "X">>

ItemA ==
    [item_name |-> Name_Xray, item_amount |-> FloatNum(1050),
     item_rate |-> FloatNum(525), item_quantity |-> FloatNum(2)]

\* the same line as ItemA as the model may print it on another page:
\* other case and padding, integer amount, another quantity
ItemB ==
    [item_name |-> Name_xray_sp, item_amount |-> IntNum(1050),
     item_rate |-> FloatNum(525), item_quantity |-> FloatNum(1)]

\* same name and rate as ItemA, another amount
ItemC ==
    [item_name |-> Name_Xray, item_amount |-> FloatNum(2100),
     item_rate |-> FloatNum(525), item_quantity |-> FloatNum(2)]

\* a pharmacy line
ItemD ==
    [item_name |-> Name_Syrup, item_amount |-> FloatNum(1050),
     item_rate |-> FloatNum(525), item_quantity |-> FloatNum(2)]

\* lines the model may return that lack a field or carry an amount or rate
\* that is not a JSON number
Text_1050 == <<"1", ",", "0", "5", "0">>
Digits_1050 == <<"1", "0", "5", "0">>

ItemNoName ==
    [item_amount |-> FloatNum(300), item_rate |-> FloatNum(300),
     item_quantity |-> FloatNum(1)]

ItemNoAmount ==
    [item_name |-> Name_Xray, item_rate |-> FloatNum(525),
     item_quantity |-> FloatNum(2)]

ItemNoRate ==
    [item_name |-> Name_Xray, item_amount |-> FloatNum(1050),
     item_quantity |-> FloatNum(2)]

ItemTextAmount ==
    [item_name |-> Name_Xray, item_amount |-> StrNum(Text_1050),
     item_rate |-> FloatNum(525), item_quantity |-> FloatNum(2)]

\* the amount of ItemA as a string of digits
ItemDigitsAmount ==
    [item_name |-> Name_Xray, item_amount |-> StrNum(Digits_1050),
     item_rate |-> FloatNum(525), item_quantity |-> FloatNum(2)]

ItemNullRate ==
    [item_name |-> Name_Xray, item_amount |-> FloatNum(1050),
     item_rate |-> Null, item_quantity |-> FloatNum(2)]

\* bill_items lists that are not lists of well-formed lines
MalformedLists ==
    { <<IntNum(1)>>, <<ItemD, IntNum(1)>>, <<ItemNoName>>, <<ItemNoAmount>>,
      <<ItemNoRate>>, <<ItemTextAmount>>, <<ItemDigitsAmount>>, <<ItemNullRate>> }

\* the bill_items lists a model reply may carry
ItemLists ==
    { <<>>, <<ItemA>>, <<ItemB>>, <<ItemA, ItemB>>, <<ItemC, ItemA>>, <<ItemD, ItemC>> }

\* length of the reply text for a record with these items
TextLen(items) == 34 + 93 * Len(items)

\* What requests.post and the backend can do for page n.  kind:
\*   ConnectionError, Timeout  requests.post raises
\*   non200                    a response whose status is not 200
\*   bad_body                  status 200, response.json() raises
\*   undecodable               status 200, the response text is not JSON
\*   json                      status 200, the response text is a JSON object
\*   json_other                status 200, the text is JSON but no object
\*   json_unsized              status 200, the text is a JSON object whose
\*                             bill_items has no len() (null, a number)
ModelReplies(n) ==
    { [kind |-> k, text_len |-> 0, data |-> <<>>] :
          k \in {"ConnectionError", "Timeout", "non200", "bad_body"} }
    \cup { [kind |-> "undecodable", text_len |-> 18, data |-> <<>>] }
    \* body without a 'response' field: the text defaults to '{}'
    \cup { [kind |-> "json", text_len |-> 2, data |-> <<>>] }
    \cup { [kind |-> "json", text_len |-> TextLen(items),
            data |-> [page_no |-> ToString(n), bill_items |-> items]] :
              items \in ItemLists }

\* replies whose text is valid JSON of another shape than the prompt asks for
MalformedReplies(n) ==
    { [kind |-> "json_other", text_len |-> 2, data |-> <<>>],
      [kind |-> "json_unsized", text_len |-> 36, data |-> <<>>] }
    \cup { [kind |-> "json", text_len |-> TextLen(items),
            data |-> [page_no |-> ToString(n), bill_items |-> items]] :
              items \in MalformedLists }

\* records whose page_no is another page's, or missing
PageNoReplies(n) ==
    { [kind |-> "json", text_len |-> TextLen(<<ItemC>>),
       data |-> [page_no |-> ToString(n + 1), bill_items |-> <<ItemC>>]],
      [kind |-> "json", text_len |-> TextLen(<<ItemC>>) - 16,
       data |-> [bill_items |-> <<ItemC>>]] }

\* everything the backend may answer for page n
AnyReplies(n) == ModelReplies(n) \cup MalformedReplies(n) \cup PageNoReplies(n)

\* the replies used when two calls run together
ConcReplies(n) ==
    { r \in ModelReplies(n) :
          \/ r.kind = "non200"
          \/ r.kind = "json" /\ Get(r.data, "bill_items", <<>>) = <<ItemA>> }

(* ------------------------------ images --------------------------------- *)

\* len(img_base64) of the image of page n
B64Len(n) == 1500 + 700 * n

\* the pages convert_from_path renders for a PDF of n pages
PdfImages(n) == [k \in 1..n |-> [b64_len |-> B64Len(k), readable |-> TRUE]]

\* Image.open identifies the file and leaves the pixel data to be read
\* later: the data of a truncated file is unreadable
OpenedImage(readable) == <<[b64_len |-> B64Len(1), readable |-> readable]>>

(* ------------------------- determine_page_type ------------------------- *)

Kw_medicine == <<"m", "e", "d", "i", "c", "i", "n", "e">>
Kw_tablet == <<"t", "a", "b", "l", "e", "t">>
Kw_capsule == <<"c", "a", "p", "s", "u", "l", "e">>
Kw_syrup == <<"s", "y", "r", "u", "p">>
Kw_injection == <<"i", "n", "j", "e", "c", "t", "i", "o", "n">>

PharmacyWords == {Kw_medicine, Kw_tablet, Kw_capsule, Kw_syrup, Kw_injection}

\* any(word in item_name for word in [...]) with item_name lowercased
NamesPharmacy(item) ==
    \E word \in PharmacyWords :
        Contains(Lower(Get(item, "item_name", <<>>)), word)

\* mutant: the item count is tested before the pharmacy words
determine_page_type_count_first(page_data) ==
    LET items == Get(page_data, "bill_items", <<>>)
    IN  IF items = <<>> THEN "Bill Detail"
        ELSE IF Len(items) < 3 THEN "Final Bill"
        ELSE IF \E k \in 1..Len(items) : NamesPharmacy(items[k])
        THEN "Pharmacy"
        ELSE "Bill Detail"

determine_page_type(page_data) ==
    LET items == Get(page_data, "bill_items", <<>>)
    IN  IF items = <<>> THEN "Bill Detail"
        ELSE IF \E k \in 1..Len(items) : NamesPharmacy(items[k])
        THEN "Pharmacy"
        ELSE IF Len(items) < 3 THEN "Final Bill"
        ELSE "Bill Detail"

(* -------------------------- extract_from_image ------------------------- *)

\* len(prompt) for page numbers below 10
PromptLen == 769

EmptyRecord(page_num) == [page_no |-> ToString(page_num), bill_items |-> <<>>]

estimated_input(image) == (PromptLen \div 4) + (image.b64_len \div 1000)
estimated_output(reply) == reply.text_len \div 4

\* the reply reached the token accounting (status 200 and a response text)
Counted(reply) ==
    reply.kind \in {"undecodable", "json", "json_other", "json_unsized"}

NoExc == [type |-> "", msg |-> ""]

\* determine_page_type raises when item.get is reached on an element that is
\* no dict; the loop returns at the first pharmacy line and looks no further
RECURSIVE PageTypeScan(_)
PageTypeScan(items) ==
    IF items = <<>> THEN NoExc
    ELSE IF ~IsObject(Head(items))
    THEN [type |-> "AttributeError", msg |-> "'int' object has no attribute 'get'"]
    ELSE IF NamesPharmacy(Head(items)) THEN NoExc
    ELSE PageTypeScan(Tail(items))

determine_page_type_error(page_data) ==
    PageTypeScan(Get(page_data, "bill_items", <<>>))

\* mutant: the estimates are added after json.loads succeeded
extract_from_image_count_parsed(image, page_num, reply) ==
    IF ~image.readable
    THEN [raised |-> EncodeError, posted |-> FALSE,
          page_data |-> <<>>, add_input |-> 0, add_output |-> 0]
    ELSE IF reply.kind = "json"
    THEN [raised |-> NoExc, posted |-> TRUE, page_data |-> reply.data,
          add_input |-> estimated_input(image),
          add_output |-> estimated_output(reply)]
    ELSE [raised |-> NoExc, posted |-> TRUE,
          page_data |-> EmptyRecord(page_num), add_input |-> 0, add_output |-> 0]

\* mutant: requests.post is not inside the try block, its exceptions leave
\* extract_from_image
extract_from_image_uncaught(image, page_num, reply) ==
    IF ~image.readable
    THEN [raised |-> EncodeError, posted |-> FALSE,
          page_data |-> <<>>, add_input |-> 0, add_output |-> 0]
    ELSE IF reply.kind \in {"ConnectionError", "Timeout"}
    THEN [raised |-> [type |-> reply.kind, msg |-> "model backend unreachable"],
          posted |-> TRUE, page_data |-> <<>>, add_input |-> 0, add_output |-> 0]
    ELSE IF Counted(reply)
    THEN [raised |-> NoExc, posted |-> TRUE,
          page_data |-> IF reply.kind = "json" THEN reply.data
                        ELSE EmptyRecord(page_num),
          add_input |-> estimated_input(image),
          add_output |-> estimated_output(reply)]
    ELSE [raised |-> NoExc, posted |-> TRUE,
          page_data |-> EmptyRecord(page_num), add_input |-> 0, add_output |-> 0]

\* extract_from_image: the record it returns and what it adds to the
\* counters, or the exception that leaves it. image_to_base64 runs before the
\* try block; everything after it is caught.
extract_from_image(image, page_num, reply) ==
    IF ~image.readable
    THEN [raised |-> EncodeError, posted |-> FALSE,
          page_data |-> <<>>, add_input |-> 0, add_output |-> 0]
    ELSE IF Counted(reply)
    THEN [raised |-> NoExc, posted |-> TRUE,
          page_data |-> IF reply.kind = "json" THEN reply.data
                        ELSE EmptyRecord(page_num),
          add_input |-> estimated_input(image),
          add_output |-> estimated_output(reply)]
    ELSE [raised |-> NoExc, posted |-> TRUE,
          page_data |-> EmptyRecord(page_num), add_input |-> 0, add_output |-> 0]

(* --------------------------- deduplicate_items ------------------------- *)

\* the exception of float(x), NoExc if there is none
FloatError(x) ==
    IF x.ty \in {"int", "float"} THEN NoExc
    ELSE IF x.ty = "null"
    THEN [type |-> "TypeError",
          msg |-> "float() argument must be a string or a real number, not 'NoneType'"]
    ELSE IF IsNumeral(x.val) THEN NoExc
    ELSE [type |-> "ValueError", msg |-> "could not convert string to float"]

KeyError(k) == [type |-> "KeyError", msg |-> k]

\* the exception of building item_key: the tuple is evaluated left to right
item_key_error(item) ==
    IF ~IsObject(item)
    THEN [type |-> "TypeError", msg |-> "'int' object is not subscriptable"]
    ELSE IF "item_name" \notin DOMAIN item THEN KeyError("'item_name'")
    ELSE IF "item_amount" \notin DOMAIN item THEN KeyError("'item_amount'")
    ELSE IF FloatError(item.item_amount) # NoExc THEN FloatError(item.item_amount)
    ELSE IF "item_rate" \notin DOMAIN item THEN KeyError("'item_rate'")
    ELSE FloatError(item.item_rate)

RECURSIVE FirstKeyError(_)
FirstKeyError(items) ==
    IF items = <<>> THEN NoExc
    ELSE IF item_key_error(Head(items)) # NoExc THEN item_key_error(Head(items))
    ELSE FirstKeyError(Tail(items))

\* the exception that leaves deduplicate_items, NoExc if it returns
RECURSIVE deduplicate_items_error(_)
deduplicate_items_error(all_pages) ==
    IF all_pages = <<>> THEN NoExc
    ELSE LET e == FirstKeyError(Get(Head(all_pages), "bill_items", <<>>))
         IN  IF e # NoExc THEN e ELSE deduplicate_items_error(Tail(all_pages))

\* mutant: the quantity is part of the key
item_key_with_quantity(item) ==
    <<Lower(Strip(item.item_name)), Float(item.item_amount), Float(item.item_rate),
      Float(item.item_quantity)>>

item_key(item) ==
    <<Lower(Strip(item.item_name)), Float(item.item_amount), Float(item.item_rate)>>

\* the inner loop: the unique items of one page and the keys seen so far
RECURSIVE UniqueItems(_, _, _)
UniqueItems(items, seen_items, unique_items) ==
    IF items = <<>> THEN [unique_items |-> unique_items, seen_items |-> seen_items]
    ELSE LET item == Head(items)
         IN  IF item_key(item) \notin seen_items
             THEN UniqueItems(Tail(items), seen_items \cup {item_key(item)},
                              Append(unique_items, item))
             ELSE UniqueItems(Tail(items), seen_items, unique_items)

\* mutant: a page left without items is not appended
RECURSIVE DedupPages_drop_empty(_, _, _)
DedupPages_drop_empty(all_pages, seen_items, deduplicated_pages) ==
    IF all_pages = <<>> THEN deduplicated_pages
    ELSE LET page == Head(all_pages)
             u == UniqueItems(Get(page, "bill_items", <<>>), seen_items, <<>>)
             newpage == [k \in DOMAIN page \cup {"bill_items"} |->
                            IF k = "bill_items" THEN u.unique_items ELSE page[k]]
         IN  DedupPages_drop_empty(Tail(all_pages), u.seen_items,
                 IF u.unique_items = <<>> THEN deduplicated_pages
                 ELSE Append(deduplicated_pages, newpage))

\* mutant: the set of seen keys starts empty on every page
RECURSIVE DedupPages_PerPage(_, _, _)
DedupPages_PerPage(all_pages, seen_items, deduplicated_pages) ==
    IF all_pages = <<>> THEN deduplicated_pages
    ELSE LET page == Head(all_pages)
             u == UniqueItems(Get(page, "bill_items", <<>>), {}, <<>>)
             newpage == [k \in DOMAIN page \cup {"bill_items"} |->
                            IF k = "bill_items" THEN u.unique_items ELSE page[k]]
         IN  DedupPages_PerPage(Tail(all_pages), u.seen_items,
                                Append(deduplicated_pages, newpage))

\* the outer loop over the pages
RECURSIVE DedupPages(_, _, _)
DedupPages(all_pages, seen_items, deduplicated_pages) ==
    IF all_pages = <<>> THEN deduplicated_pages
    ELSE LET page == Head(all_pages)
             u == UniqueItems(Get(page, "bill_items", <<>>), seen_items, <<>>)
             newpage == [k \in DOMAIN page \cup {"bill_items"} |->
                            IF k = "bill_items" THEN u.unique_items ELSE page[k]]
         IN  DedupPages(Tail(all_pages), u.seen_items,
                        Append(deduplicated_pages, newpage))

deduplicate_items(all_pages) == DedupPages(all_pages, {}, <<>>)

RECURSIVE SumItems(_)
SumItems(pages) ==
    IF pages = <<>> THEN 0
    ELSE Len(Get(Head(pages), "bill_items", <<>>)) + SumItems(Tail(pages))

\* mutant: the count is the number of page records
total_items_of_pages(pagewise) == Len(pagewise)

\* "Count total items"
total_items_of(pagewise) == SumItems(pagewise)

(* ------------------------------- state --------------------------------- *)

\* the requests the hosting layer may have in flight
Calls == {1, 2}

VARIABLES
    input_tokens,      \* extractor.input_tokens  (one extractor per process)
    output_tokens,     \* extractor.output_tokens
    total_tokens,      \* extractor.total_tokens
    files,             \* the temporary files that exist on disk
    pc,                \* per call: where extract_bill_data stands
    dl,                \* per call: url and response inside download_document
    temp_file,         \* per call: the local temp_file
    images,            \* per call: the local images
    page_idx,          \* per call: pages handled so far by the page loop
    pagewise_results,  \* per call: the local pagewise_results
    response,          \* per call: the dict returned
    created,           \* history: the file the call's download created (0: none)
    removes,           \* history: os.remove calls made by the call
    log,               \* history: the requests.post calls of the call
    kept,              \* history: the pages whose record was appended
    classified,        \* history: the pages given to determine_page_type
    all_pages,         \* history: the argument of deduplicate_items
    raised,            \* history: the exception extract_bill_data caught
    fetches,           \* history: the requests.get calls of the call
    stale,             \* history: the counters were not zero when the call began
    http               \* per handler: the HTTP response it sent last

extractor_vars == <<input_tokens, output_tokens, total_tokens>>
local_vars_but_response == <<dl, temp_file, images, page_idx, pagewise_results>>
local_vars == <<local_vars_but_response, response>>
history_but_files == <<log, kept, classified, all_pages>>
history_vars == <<created, removes, raised, history_but_files>>
handler_vars == <<fetches, stale, http>>
vars == <<extractor_vars, files, pc, local_vars, history_vars, handler_vars>>

NoFile == [id |-> 0, suffix |-> <<>>]
NoDownload == [url |-> <<>>, content_type |-> <<>>]
NoResponse == [is_success |-> FALSE, returned |-> FALSE]
NoHttp == [status |-> 0, document |-> <<>>, body |-> <<>>]

FileIds == 1..(MaxLeaks + Cardinality(Calls))

\* a name tempfile has not handed out yet
FreshFile == CHOOSE f \in FileIds \ files : \A g \in FileIds \ files : f <= g

Init ==
    /\ input_tokens = 0
    /\ output_tokens = 0
    /\ total_tokens = 0
    /\ files = {}
    /\ pc = [c \in Calls |-> "idle"]
    /\ dl = [c \in Calls |-> NoDownload]
    /\ temp_file = [c \in Calls |-> NoFile]
    /\ images = [c \in Calls |-> <<>>]
    /\ page_idx = [c \in Calls |-> 0]
    /\ pagewise_results = [c \in Calls |-> <<>>]
    /\ response = [c \in Calls |-> NoResponse]
    /\ created = [c \in Calls |-> 0]
    /\ removes = [c \in Calls |-> 0]
    /\ log = [c \in Calls |-> <<>>]
    /\ kept = [c \in Calls |-> <<>>]
    /\ classified = [c \in Calls |-> {}]
    /\ all_pages = [c \in Calls |-> <<>>]
    /\ raised = [c \in Calls |-> NoExc]
    /\ fetches = [c \in Calls |-> 0]
    /\ stale = [c \in Calls |-> FALSE]
    /\ http = [c \in Calls |-> NoHttp]

TokenUsage(total, inp, out) ==
    [total_tokens |-> total, input_tokens |-> inp, output_tokens |-> out]

\* mutant: the error field carries the exception's type, not its message
FailureResponse_type(e, total, inp, out) ==
    [is_success |-> FALSE,
     token_usage |-> TokenUsage(total, inp, out),
     data |-> [pagewise_line_items |-> <<>>, total_item_count |-> 0],
     error |-> e.type]

\* the dict built in the except branch of extract_bill_data
FailureResponse(e, total, inp, out) ==
    [is_success |-> FALSE,
     token_usage |-> TokenUsage(total, inp, out),
     data |-> [pagewise_line_items |-> <<>>, total_item_count |-> 0],
     error |-> e.msg]

\* the dict built at the end of the try block
SuccessResponse(pagewise, total_items, total, inp, out) ==
    [is_success |-> TRUE,
     token_usage |-> TokenUsage(total, inp, out),
     data |-> [pagewise_line_items |-> pagewise, total_item_count |-> total_items]]

\* the finally block of extract_bill_data removes this call's file
ShouldRemove(c) == temp_file[c] # NoFile /\ temp_file[c].id \in files

\* return through the finally block: the call ends with dict resp, after
\* catching e (NoExc: the try block ran to its return)
Finish(c, resp, e) ==
    /\ response' = [response EXCEPT ![c] = resp]
    /\ raised' = [raised EXCEPT ![c] = e]
    /\ pc' = [pc EXCEPT ![c] = "Done"]
    /\ IF ShouldRemove(c)
       THEN /\ files' = files \ {temp_file[c].id}
            /\ removes' = [removes EXCEPT ![c] = @ + 1]
       ELSE UNCHANGED <<files, removes>>

\* mutant: no except branch, the exception leaves extract_bill_data through
\* the finally block and no dict is returned
Fail_raise(c, e) ==
    /\ raised' = [raised EXCEPT ![c] = e]
    /\ pc' = [pc EXCEPT ![c] = "Raised"]
    /\ IF ShouldRemove(c)
       THEN /\ files' = files \ {temp_file[c].id}
            /\ removes' = [removes EXCEPT ![c] = @ + 1]
       ELSE UNCHANGED <<files, removes>>
    /\ UNCHANGED response

\* the except branch, then finally
Fail(c, e) ==
    Finish(c, FailureResponse(e, total_tokens, input_tokens, output_tokens), e)

(* ------------------------------ actions -------------------------------- *)

\* mutant: only the empty document is turned away
ValidDocument_nonempty(document) == document # <<>>

\* main.py, "Validate document URL"
ValidDocument(document) ==
    /\ document # <<>>
    /\ StartsWith(document, Scheme_http) \/ StartsWith(document, Scheme_https)

\* the detail of the HTTPException raised for a document that is not valid
Detail(document) ==
    IF document = <<>> THEN "Document URL is required" ELSE "Invalid document URL"

\* status_code=200 if result["is_success"] else 500
StatusOf(result) == IF result.is_success THEN 200 ELSE 500

\* main.py: the handler validates the request's document and passes it to
\* extractor.extract_bill_data
Call(c, document) ==
    /\ pc[c] = "idle"
    /\ ValidDocument(document)
    /\ pc' = [pc EXCEPT ![c] = "Init"]
    /\ dl' = [dl EXCEPT ![c] = [url |-> document, content_type |-> <<>>]]
    /\ stale' = [stale EXCEPT ![c] = total_tokens # 0]
    /\ http' = [http EXCEPT ![c] = NoHttp]
    /\ UNCHANGED <<extractor_vars, files, temp_file, images, page_idx,
                   pagewise_results, response, history_vars, fetches>>

\* main.py: the handler raises HTTPException(400) for a document that is
\* empty or has another scheme; the extractor is not called
Reject(c, document) ==
    /\ pc[c] = "idle"
    /\ ~ValidDocument(document)
    /\ http' = [http EXCEPT ![c] =
           [status |-> 400, document |-> document, body |-> Detail(document)]]
    /\ UNCHANGED <<extractor_vars, files, pc, local_vars, history_vars,
                   fetches, stale>>

\* mutant: reset_token_usage zeroes total_tokens only
ResetTokenUsage_total_only(c) ==
    /\ pc[c] = "Init"
    /\ total_tokens' = 0
    /\ temp_file' = [temp_file EXCEPT ![c] = NoFile]
    /\ pc' = [pc EXCEPT ![c] = "Acquiring"]
    /\ UNCHANGED <<input_tokens, output_tokens, files, dl, images, page_idx,
                   pagewise_results, response, history_vars, handler_vars>>

\* mutant: extract_bill_data does not call reset_token_usage
ResetTokenUsage_keep(c) ==
    /\ pc[c] = "Init"
    /\ temp_file' = [temp_file EXCEPT ![c] = NoFile]
    /\ pc' = [pc EXCEPT ![c] = "Acquiring"]
    /\ UNCHANGED <<extractor_vars, files, dl, images, page_idx, pagewise_results,
                   response, history_vars, handler_vars>>

\* extract_bill_data: self.reset_token_usage(); temp_file = None
ResetTokenUsage(c) ==
    /\ pc[c] = "Init"
    /\ input_tokens' = 0
    /\ output_tokens' = 0
    /\ total_tokens' = 0
    /\ temp_file' = [temp_file EXCEPT ![c] = NoFile]
    /\ pc' = [pc EXCEPT ![c] = "Acquiring"]
    /\ UNCHANGED <<files, dl, images, page_idx, pagewise_results, response,
                   history_vars, handler_vars>>

\* download_document: requests.get and raise_for_status succeed, the
\* response carries this content-type header
GetDocument(c, content_type) ==
    /\ pc[c] = "Acquiring"
    /\ dl' = [dl EXCEPT ![c].content_type = content_type]
    /\ fetches' = [fetches EXCEPT ![c] = @ + 1]
    /\ pc' = [pc EXCEPT ![c] = "Storing"]
    /\ UNCHANGED <<extractor_vars, files, temp_file, images, page_idx,
                   pagewise_results, response, history_vars, stale, http>>

\* download_document: requests.get or raise_for_status raises e
GetDocumentFails(c, e) ==
    /\ pc[c] = "Acquiring"
    /\ fetches' = [fetches EXCEPT ![c] = @ + 1]
    /\ dl' = [dl EXCEPT ![c] = NoDownload]
    /\ Fail(c, e)
    /\ UNCHANGED <<extractor_vars, temp_file, images, page_idx, pagewise_results,
                   created, history_but_files, stale, http>>

\* files on disk that no call in flight will remove
Leaked == files \ {temp_file[c].id : c \in Calls}

\* download_document: the extension is inferred, the temporary file is
\* written and closed, its name becomes extract_bill_data's temp_file
StoreDocument(c) ==
    /\ pc[c] = "Storing"
    /\ LET ext == InferExt(dl[c].content_type, dl[c].url)
           f == FreshFile
       IN  /\ files' = files \cup {f}
           /\ temp_file' = [temp_file EXCEPT ![c] = [id |-> f, suffix |-> ext]]
           /\ created' = [created EXCEPT ![c] = f]
    /\ dl' = [dl EXCEPT ![c] = NoDownload]
    /\ pc' = [pc EXCEPT ![c] = "Rasterizing"]
    /\ UNCHANGED <<extractor_vars, images, page_idx, pagewise_results, response,
                   removes, raised, history_but_files, handler_vars>>

\* download_document: NamedTemporaryFile raises, nothing was created
CreateTempFileFails(c) ==
    /\ pc[c] = "Storing"
    /\ dl' = [dl EXCEPT ![c] = NoDownload]
    /\ Fail(c, TempFileError)
    /\ UNCHANGED <<extractor_vars, temp_file, images, page_idx, pagewise_results,
                   created, history_but_files, handler_vars>>

\* download_document: temp_file.write raises after NamedTemporaryFile
\* (delete=False) created the file; the exception leaves download_document
\* before extract_bill_data's temp_file is assigned
WriteTempFileFails(c) ==
    /\ pc[c] = "Storing"
    /\ Cardinality(Leaked) < MaxLeaks
    /\ LET f == FreshFile
       IN  /\ created' = [created EXCEPT ![c] = f]
           /\ response' = [response EXCEPT ![c] =
                  FailureResponse(WriteError, total_tokens, input_tokens,
                                  output_tokens)]
           /\ raised' = [raised EXCEPT ![c] = WriteError]
           /\ pc' = [pc EXCEPT ![c] = "Done"]
           \* finally: temp_file is None, nothing is removed
           /\ files' = IF ShouldRemove(c) THEN (files \cup {f}) \ {temp_file[c].id}
                       ELSE files \cup {f}
           /\ removes' = IF ShouldRemove(c) THEN [removes EXCEPT ![c] = @ + 1]
                         ELSE removes
    /\ dl' = [dl EXCEPT ![c] = NoDownload]
    /\ UNCHANGED <<extractor_vars, temp_file, images, page_idx, pagewise_results,
                   history_but_files, handler_vars>>

\* convert_to_images: a PDF becomes n page images, anything else one image
ConvertToImages(c, n, readable) ==
    /\ pc[c] = "Rasterizing"
    /\ images' = [images EXCEPT ![c] =
           IF Lower(temp_file[c].suffix) = Ext_pdf THEN PdfImages(n)
           ELSE OpenedImage(readable)]
    /\ pagewise_results' = [pagewise_results EXCEPT ![c] = <<>>]
    /\ page_idx' = [page_idx EXCEPT ![c] = 0]
    /\ pc' = [pc EXCEPT ![c] = "PerPageProcessing"]
    /\ UNCHANGED <<extractor_vars, files, dl, temp_file, response, history_vars,
                   handler_vars>>

\* convert_to_images raises e
ConvertToImagesFails(c, e) ==
    /\ pc[c] = "Rasterizing"
    /\ Fail(c, e)
    /\ UNCHANGED <<extractor_vars, local_vars_but_response, created,
                   history_but_files, handler_vars>>

\* mutant: only `if page_data:`
HasItems_any(page_data) == DOMAIN page_data # {}

\* `page_data and page_data.get('bill_items')`
HasItems(page_data) ==
    /\ DOMAIN page_data # {}
    /\ Get(page_data, "bill_items", <<>>) # <<>>

\* d[k] = v
WithKey(d, k, v) == [x \in DOMAIN d \cup {k} |-> IF x = k THEN v ELSE d[x]]

\* mutant: a page that gave no items is tried again
NextPageIdx_retry(i, page_data) == IF HasItems(page_data) THEN i ELSE i - 1

\* for i, image in enumerate(images, 1): the loop moves on to the next image
\* whatever the page gave
NextPageIdx(i, page_data) == i

\* one pass of the page loop: extract_from_image on the next page with the
\* backend answering `reply`, then the classification and the append
ExtractPage(c, reply) ==
    /\ pc[c] = "PerPageProcessing"
    /\ page_idx[c] < Len(images[c])
    /\ LET i == page_idx[c] + 1
           r == extract_from_image(images[c][i], i, reply)
           page_data == r.page_data
           inp == input_tokens + r.add_input
           out == output_tokens + r.add_output
           total == total_tokens + (r.add_input + r.add_output)
           e == IF HasItems(page_data) THEN determine_page_type_error(page_data)
                ELSE NoExc
       IN  IF r.raised # NoExc
           THEN /\ Fail(c, r.raised)
                /\ UNCHANGED <<extractor_vars, local_vars_but_response, created,
                               history_but_files, handler_vars>>
           ELSE /\ input_tokens' = inp
                /\ output_tokens' = out
                /\ total_tokens' = total
                /\ log' = [log EXCEPT ![c] =
                       Append(@, [page |-> i, reply |-> reply,
                                  page_data |-> page_data])]
                /\ IF e # NoExc
                   THEN /\ Finish(c, FailureResponse(e, total, inp, out), e)
                        /\ classified' = [classified EXCEPT ![c] = @ \cup {i}]
                        /\ UNCHANGED <<local_vars_but_response, created, kept,
                                       all_pages, handler_vars>>
                   ELSE /\ IF HasItems(page_data)
                           THEN /\ pagewise_results' =
                                       [pagewise_results EXCEPT ![c] =
                                           Append(@, WithKey(page_data, "page_type",
                                                      determine_page_type(page_data)))]
                                /\ classified' = [classified EXCEPT ![c] = @ \cup {i}]
                                /\ kept' = [kept EXCEPT ![c] = Append(@, i)]
                           ELSE UNCHANGED <<pagewise_results, classified, kept>>
                        /\ page_idx' = [page_idx EXCEPT ![c] = NextPageIdx(i, page_data)]
                        /\ pc' = [pc EXCEPT ![c] =
                               IF NextPageIdx(i, page_data) = Len(images[c])
                               THEN "Deduplicating" ELSE @]
                        /\ UNCHANGED <<files, dl, temp_file, images, response,
                                       created, removes, raised, all_pages,
                                       handler_vars>>

\* pagewise_results = self.deduplicate_items(pagewise_results)
Deduplicate(c) ==
    /\ pc[c] = "Deduplicating"
    /\ all_pages' = [all_pages EXCEPT ![c] = pagewise_results[c]]
    /\ LET e == deduplicate_items_error(pagewise_results[c])
       IN  IF e # NoExc
           THEN /\ Fail(c, e)
                /\ UNCHANGED <<extractor_vars, local_vars_but_response, created,
                               log, kept, classified, handler_vars>>
           ELSE /\ pagewise_results' =
                       [pagewise_results EXCEPT ![c] = deduplicate_items(@)]
                /\ pc' = [pc EXCEPT ![c] = "Assembling"]
                /\ UNCHANGED <<extractor_vars, files, dl, temp_file, images,
                               page_idx, response, created, removes, raised, log,
                               kept, classified, handler_vars>>

\* the count, the response dict, the return through finally
Assemble(c) ==
    /\ pc[c] = "Assembling"
    /\ Finish(c, SuccessResponse(pagewise_results[c],
                                 total_items_of(pagewise_results[c]),
                                 total_tokens, input_tokens, output_tokens),
              NoExc)
    /\ UNCHANGED <<extractor_vars, local_vars_but_response, created,
                   history_but_files, handler_vars>>

\* main.py: the handler sends the dict as the body of a JSONResponse; the
\* frame of extract_bill_data is gone
Return(c) ==
    /\ pc[c] = "Done"
    /\ http' = [http EXCEPT ![c] =
           [status |-> StatusOf(response[c]), document |-> <<>>,
            body |-> response[c]]]
    /\ fetches' = [fetches EXCEPT ![c] = 0]
    /\ stale' = [stale EXCEPT ![c] = FALSE]
    /\ pc' = [pc EXCEPT ![c] = "idle"]
    /\ dl' = [dl EXCEPT ![c] = NoDownload]
    /\ temp_file' = [temp_file EXCEPT ![c] = NoFile]
    /\ images' = [images EXCEPT ![c] = <<>>]
    /\ page_idx' = [page_idx EXCEPT ![c] = 0]
    /\ pagewise_results' = [pagewise_results EXCEPT ![c] = <<>>]
    /\ response' = [response EXCEPT ![c] = NoResponse]
    /\ created' = [created EXCEPT ![c] = 0]
    /\ removes' = [removes EXCEPT ![c] = 0]
    /\ raised' = [raised EXCEPT ![c] = NoExc]
    /\ log' = [log EXCEPT ![c] = <<>>]
    /\ kept' = [kept EXCEPT ![c] = <<>>]
    /\ classified' = [classified EXCEPT ![c] = {}]
    /\ all_pages' = [all_pages EXCEPT ![c] = <<>>]
    /\ UNCHANGED <<extractor_vars, files>>

(* --------------------------- specifications ---------------------------- *)

\* The handler is a coroutine that never awaits while extract_bill_data
\* runs, so one server process serves its requests one after another.
\* a step of extract_bill_data
Step(c) ==
    \/ ResetTokenUsage(c)
    \/ \E ct \in ContentTypes : GetDocument(c, ct)
    \/ \E e \in GetErrors : GetDocumentFails(c, e)
    \/ StoreDocument(c)
    \/ CreateTempFileFails(c)
    \/ WriteTempFileFails(c)
    \/ \E n \in 1..MaxPages, readable \in BOOLEAN : ConvertToImages(c, n, readable)
    \/ \E e \in ConvertErrors : ConvertToImagesFails(c, e)
    \/ \E reply \in ModelReplies(page_idx[c] + 1) : ExtractPage(c, reply)
    \/ Deduplicate(c)
    \/ Assemble(c)

Next ==
    \/ \E document \in Documents : Call(1, document)
    \/ \E document \in Documents : Reject(1, document)
    \/ Step(1)
    \/ Return(1)

Spec == Init /\ [][Next]_vars

\* the replies of the specification with fairness: two failing calls, text
\* that is not JSON, and records with no, one and two items
LiveReplies(n) ==
    { r \in ModelReplies(n) :
          \/ r.kind \in {"Timeout", "non200", "undecodable"}
          \/ /\ r.kind = "json"
             /\ Get(r.data, "bill_items", <<>>) \in {<<>>, <<ItemA>>, <<ItemC, ItemA>>} }

\* a step of extract_bill_data on a PDF or an image of up to MaxLivePages
\* pages
StepLive(c) ==
    \/ ResetTokenUsage(c)
    \/ \E ct \in {Ct_pdf, Ct_absent} : GetDocument(c, ct)
    \/ \E e \in GetErrors : GetDocumentFails(c, e)
    \/ StoreDocument(c)
    \/ CreateTempFileFails(c)
    \/ WriteTempFileFails(c)
    \/ \E n \in 1..MaxLivePages, readable \in BOOLEAN :
           ConvertToImages(c, n, readable)
    \/ \E e \in ConvertErrors : ConvertToImagesFails(c, e)
    \/ \E reply \in LiveReplies(page_idx[c] + 1) : ExtractPage(c, reply)
    \/ Deduplicate(c)
    \/ Assemble(c)

NextLive ==
    \/ \E document \in {Url_pdf, Url_png} : Call(1, document)
    \/ StepLive(1)
    \/ Return(1)

\* Every operation extract_bill_data blocks on returns or raises (requests
\* are made with timeouts), so a call that has begun keeps taking steps.
SpecLive == Init /\ [][NextLive]_vars /\ WF_vars(StepLive(1))

\* Two requests served at the same time on the one extractor, as a hosting
\* layer does that runs handlers on several threads.
NextConc ==
    \E c \in Calls :
        \/ Call(c, Url_pdf)
        \/ ResetTokenUsage(c)
        \/ GetDocument(c, Ct_pdf)
        \/ \E e \in GetErrors : GetDocumentFails(c, e)
        \/ StoreDocument(c)
        \/ \E n \in 1..MaxConcPages : ConvertToImages(c, n, TRUE)
        \/ \E reply \in ConcReplies(page_idx[c] + 1) : ExtractPage(c, reply)
        \/ Deduplicate(c)
        \/ Assemble(c)
        \/ Return(c)

SpecConc == Init /\ [][NextConc]_vars

\* deduplicate_items on every document of up to MaxDedupPages pages with up
\* to MaxDedupItems items each: the call stands where the page loop leaves
\* it when the backend answered page k with the record of items lists[k].
DedupPool == {ItemA, ItemB, ItemC}

ItemSeqs == UNION {[1..n -> DedupPool] : n \in 1..MaxDedupItems}

RecordReply(k, items) ==
    [kind |-> "json", text_len |-> TextLen(items),
     data |-> [page_no |-> ToString(k), bill_items |-> items]]

RECURSIVE TokensAfter(_, _, _)
TokensAfter(imgs, lists, k) ==
    IF k = 0 THEN [inp |-> 0, out |-> 0]
    ELSE LET r == extract_from_image(imgs[k], k, RecordReply(k, lists[k]))
             before == TokensAfter(imgs, lists, k - 1)
         IN  [inp |-> before.inp + r.add_input, out |-> before.out + r.add_output]

AfterPageLoop(lists) ==
    LET n == Len(lists)
        tokens == TokensAfter(PdfImages(n), lists, n)
        record(k) == extract_from_image(PdfImages(n)[k], k,
                                        RecordReply(k, lists[k])).page_data
    IN  /\ input_tokens = tokens.inp
        /\ output_tokens = tokens.out
        /\ total_tokens = tokens.inp + tokens.out
        /\ files = {1}
        /\ pc = [c \in Calls |-> IF c = 1 THEN "Deduplicating" ELSE "idle"]
        /\ dl = [c \in Calls |-> NoDownload]
        /\ temp_file = [c \in Calls |->
               IF c = 1 THEN [id |-> 1, suffix |-> Ext_pdf] ELSE NoFile]
        /\ images = [c \in Calls |-> IF c = 1 THEN PdfImages(n) ELSE <<>>]
        /\ page_idx = [c \in Calls |-> IF c = 1 THEN n ELSE 0]
        /\ pagewise_results = [c \in Calls |->
               IF c = 1
               THEN [k \in 1..n |->
                        WithKey(record(k), "page_type",
                                determine_page_type(record(k)))]
               ELSE <<>>]
        /\ response = [c \in Calls |-> NoResponse]
        /\ created = [c \in Calls |-> IF c = 1 THEN 1 ELSE 0]
        /\ removes = [c \in Calls |-> 0]
        /\ log = [c \in Calls |->
               IF c = 1
               THEN [k \in 1..n |->
                        [page |-> k, reply |-> RecordReply(k, lists[k]),
                         page_data |-> record(k)]]
               ELSE <<>>]
        /\ kept = [c \in Calls |-> IF c = 1 THEN [k \in 1..n |-> k] ELSE <<>>]
        /\ classified = [c \in Calls |-> IF c = 1 THEN 1..n ELSE {}]
        /\ all_pages = [c \in Calls |-> <<>>]
        /\ raised = [c \in Calls |-> NoExc]
        /\ fetches = [c \in Calls |-> IF c = 1 THEN 1 ELSE 0]
        /\ stale = [c \in Calls |-> FALSE]
        /\ http = [c \in Calls |-> NoHttp]

InitDedup ==
    \E n \in 1..MaxDedupPages : \E lists \in [1..n -> ItemSeqs] : AfterPageLoop(lists)

NextDedup ==
    \/ Deduplicate(1)
    \/ Assemble(1)

SpecDedup == InitDedup /\ [][NextDedup]_vars

\* A PDF of up to MaxReplyPages pages whose pages the backend may answer
\* with anything: failures, well-formed records, JSON of another shape.
NextReplies ==
    \/ Call(1, Url_pdf)
    \/ ResetTokenUsage(1)
    \/ GetDocument(1, Ct_pdf)
    \/ StoreDocument(1)
    \/ \E n \in 1..MaxReplyPages : ConvertToImages(1, n, TRUE)
    \/ \E reply \in AnyReplies(page_idx[1] + 1) : ExtractPage(1, reply)
    \/ Deduplicate(1)
    \/ Assemble(1)
    \/ Return(1)

SpecReplies == Init /\ [][NextReplies]_vars

\* determine_page_type on every record of up to MaxTypeItems items
Name_Tablets == <<"P", "C", "M", " ", "T", "A", "B", "L", "E", "T", "S">>

ItemTablets ==
    [item_name |-> Name_Tablets, item_amount |-> FloatNum(40),
     item_rate |-> FloatNum(4), item_quantity |-> FloatNum(10)]

TypePool == {ItemA, ItemC, ItemD, ItemTablets, ItemNoName}

TypeLists == {<<>>} \cup UNION {[1..n -> TypePool] : n \in 1..MaxTypeItems}

\* the dicts given to determine_page_type: records of page 1 and of page 2,
\* and one without bill_items
TypeRecords ==
    { [page_no |-> no, bill_items |-> items] : no \in {"1", "2"}, items \in TypeLists }
    \cup { [page_no |-> "1"] }

InitPageType ==
    \E page_data \in TypeRecords :
        /\ input_tokens = 0
        /\ output_tokens = 0
        /\ total_tokens = 0
        /\ files = {}
        /\ pc = [c \in Calls |-> IF c = 1 THEN "Classifying" ELSE "idle"]
        /\ dl = [c \in Calls |-> NoDownload]
        /\ temp_file = [c \in Calls |-> NoFile]
        /\ images = [c \in Calls |-> <<>>]
        /\ page_idx = [c \in Calls |-> 0]
        /\ pagewise_results = [c \in Calls |-> IF c = 1 THEN <<page_data>> ELSE <<>>]
        /\ response = [c \in Calls |-> NoResponse]
        /\ created = [c \in Calls |-> 0]
        /\ removes = [c \in Calls |-> 0]
        /\ log = [c \in Calls |-> <<>>]
        /\ kept = [c \in Calls |-> <<>>]
        /\ classified = [c \in Calls |-> {}]
        /\ all_pages = [c \in Calls |-> <<>>]
        /\ raised = [c \in Calls |-> NoExc]
        /\ fetches = [c \in Calls |-> 0]
        /\ stale = [c \in Calls |-> FALSE]
        /\ http = [c \in Calls |-> NoHttp]

\* page_data['page_type'] = self.determine_page_type(page_data)
DeterminePageType(c) ==
    /\ pc[c] = "Classifying"
    /\ pagewise_results' = [pagewise_results EXCEPT ![c] =
           <<WithKey(@[1], "page_type", determine_page_type(@[1]))>>]
    /\ classified' = [classified EXCEPT ![c] = {1}]
    /\ pc' = [pc EXCEPT ![c] = "Classified"]
    /\ UNCHANGED <<extractor_vars, files, dl, temp_file, images, page_idx,
                   response, created, removes, raised, log, kept, all_pages,
                   handler_vars>>

NextPageType == DeterminePageType(1)

SpecPageType == InitPageType /\ [][NextPageType]_vars

(* ------------------------------- claims -------------------------------- *)

\* the call ended with the success dict
Succeeded(c) == pc[c] = "Done" /\ response[c].is_success

RECURSIVE BillItemsTotal(_)
BillItemsTotal(records) ==
    IF records = <<>> THEN 0
    ELSE Len(Head(records).bill_items) + BillItemsTotal(Tail(records))

RECURSIVE AllItems(_)
AllItems(records) ==
    IF records = <<>> THEN <<>>
    ELSE Head(records).bill_items \o AllItems(Tail(records))

\* C1: in every successful result, data.total_item_count is the sum of the
\* lengths of bill_items over the records of data.pagewise_line_items, as
\* they stand after deduplication.
C1_SumInvariant ==
    \A c \in Calls :
        Succeeded(c) =>
            response[c].data.total_item_count =
                BillItemsTotal(response[c].data.pagewise_line_items)

\* a success with two records, where deduplication removed an item
C1_Witness ==
    /\ Succeeded(1)
    /\ Len(response[1].data.pagewise_line_items) = 2
    /\ response[1].data.total_item_count = 3
    /\ BillItemsTotal(all_pages[1]) > 3

\* deduplicate_items has just run: all_pages is what it was given,
\* pagewise_results what it returned
AfterDedup(c) == pc[c] = "Assembling"

\* the identity of a bill item: name stripped and lowercased, amount, rate
ClaimKey(item) ==
    <<Lower(Strip(item.item_name)), item.item_amount.val, item.item_rate.val>>

KeysOf(items) == {ClaimKey(items[k]) : k \in 1..Len(items)}

\* C2: after deduplicate_items no two surviving items of the document, on
\* the same page or on different pages, have the same key, and every key of
\* the input survives in exactly one item, whatever the quantities are.
C2_OneItemPerKey ==
    \A c \in Calls :
        AfterDedup(c) =>
            LET out == AllItems(pagewise_results[c])
                outkey == [i \in 1..Len(out) |-> ClaimKey(out[i])]
            IN  /\ \A i, j \in 1..Len(out) : i # j => outkey[i] # outkey[j]
                /\ \A key \in KeysOf(AllItems(all_pages[c])) :
                       Cardinality({i \in 1..Len(out) : outkey[i] = key}) = 1

\* the same line on two pages with different quantities collapsed to one
C2_Witness ==
    /\ pc[1] = "Assembling"
    /\ Len(all_pages[1]) = 2
    /\ all_pages[1][1].bill_items = <<ItemA>>
    /\ all_pages[1][2].bill_items = <<ItemB>>
    /\ AllItems(pagewise_results[1]) = <<ItemA>>

\* item j of page p is the first item of the document with its key
FirstOccurrence(pages, p, j) ==
    ~ \E q \in 1..p :
          \E i \in 1..Len(pages[q].bill_items) :
              /\ q < p \/ i < j
              /\ ClaimKey(pages[q].bill_items[i]) = ClaimKey(pages[p].bill_items[j])

\* the first occurrences on page p, in the order of the page
FirstOccurrences(pages, p) ==
    LET s == pages[p].bill_items
        F[j \in 0..Len(s)] ==
            IF j = 0 THEN <<>>
            ELSE IF FirstOccurrence(pages, p, j) THEN Append(F[j - 1], s[j])
            ELSE F[j - 1]
    IN  F[Len(s)]

\* C3: the item kept for a key is its first occurrence in page order, then
\* in the order of the page; what survives of a page is a subsequence of
\* that page's items (same order, nothing moved between pages or invented).
C3_FirstOccurrenceKept ==
    \A c \in Calls :
        AfterDedup(c) =>
            /\ Len(pagewise_results[c]) = Len(all_pages[c])
            /\ \A p \in 1..Len(all_pages[c]) :
                   pagewise_results[c][p].bill_items =
                       FirstOccurrences(all_pages[c], p)

\* two pages: the first loses its repeated item, the second the item whose
\* key the first page already holds, and keeps the other
C3_Witness ==
    /\ pc[1] = "Assembling"
    /\ Len(all_pages[1]) = 2
    /\ all_pages[1][1].bill_items = <<ItemA, ItemA>>
    /\ all_pages[1][2].bill_items = <<ItemB, ItemC>>
    /\ pagewise_results[1][1].bill_items = <<ItemA>>
    /\ pagewise_results[1][2].bill_items = <<ItemC>>

\* the model call of a page failed or returned text that is not JSON
CallFailed(reply) ==
    reply.kind \in {"ConnectionError", "Timeout", "non200", "bad_body", "undecodable"}

\* the model call of a page returned a record with at least one item
Yielded(reply) ==
    /\ reply.kind = "json"
    /\ "bill_items" \in DOMAIN reply.data
    /\ reply.data.bill_items # <<>>

\* the records of the pages that yielded items, in page order
YieldedRecords(entries) ==
    LET F[k \in 0..Len(entries)] ==
            IF k = 0 THEN <<>>
            ELSE IF Yielded(entries[k].reply)
            THEN Append(F[k - 1], entries[k].reply.data)
            ELSE F[k - 1]
    IN  F[Len(entries)]

\* the pages that yielded items, in page order
YieldingPages(entries) ==
    LET F[k \in 0..Len(entries)] ==
            IF k = 0 THEN <<>>
            ELSE IF Yielded(entries[k].reply) THEN Append(F[k - 1], entries[k].page)
            ELSE F[k - 1]
    IN  F[Len(entries)]

\* a reply record whose items all carry the fields the pipeline reads
WellFormed(reply) ==
    /\ reply.kind = "json"
    /\ \A k \in 1..Len(Get(reply.data, "bill_items", <<>>)) :
           {"item_name", "item_amount", "item_rate"} \subseteq
               DOMAIN reply.data.bill_items[k]

\* every model call failed or returned a well-formed record
FailedOrWellFormed(entries) ==
    \A k \in 1..Len(entries) :
        CallFailed(entries[k].reply) \/ WellFormed(entries[k].reply)

\* the document was rasterized into readable page images
Rasterized(c) ==
    /\ images[c] # <<>>
    /\ \A k \in 1..Len(images[c]) : images[c][k].readable

\* C4: whatever subset of the pages has a failing model call (network error,
\* timeout, status other than 200, undecodable text), the call returns
\* is_success = true with a record for every other page that yielded an
\* item; the records are those of the yielding pages alone, so a failing
\* page neither removes nor alters another page's record.
C4_PageFailuresIsolated ==
    \A c \in Calls :
        (pc[c] = "Done" /\ Rasterized(c) /\ FailedOrWellFormed(log[c])) =>
            /\ response[c].is_success
            /\ Len(log[c]) = Len(images[c])
            /\ LET result == response[c].data.pagewise_line_items
                   yielded == YieldedRecords(log[c])
               IN  /\ kept[c] = YieldingPages(log[c])
                   /\ Len(result) = Len(yielded)
                   /\ \A r \in 1..Len(yielded) :
                          /\ result[r].page_no = yielded[r].page_no
                          /\ result[r].bill_items = FirstOccurrences(yielded, r)

\* page 2 of 3 times out, pages 1 and 3 are in the result
C4_Witness ==
    /\ Succeeded(1)
    /\ Len(images[1]) = 3
    /\ log[1][2].reply.kind = "Timeout"
    /\ kept[1] = <<1, 3>>
    /\ Len(response[1].data.pagewise_line_items) = 2
    /\ response[1].data.pagewise_line_items[2].page_no = "3"

DownloadErrors == GetErrors \cup {TempFileError, WriteError}

\* C5: when download_document or convert_to_images raises, the call goes
\* straight to Done(Failure): no model call was made, and the dict returned
\* has is_success = false, no page records, total_item_count 0 and the
\* exception's message as error.
C5_FatalAcquisitionFailure ==
    [][\A c \in Calls :
          (/\ pc[c] \in {"Acquiring", "Storing", "Rasterizing"}
           /\ raised'[c] \in DownloadErrors \cup ConvertErrors)
          => /\ pc'[c] = "Done"
             /\ log'[c] = <<>>
             /\ images'[c] = <<>>
             /\ DOMAIN response'[c] = {"is_success", "token_usage", "data", "error"}
             /\ response'[c].is_success = FALSE
             /\ response'[c].data.pagewise_line_items = <<>>
             /\ response'[c].data.total_item_count = 0
             /\ response'[c].error = raised'[c].msg]_vars

\* a call that ended because convert_to_images raised
C5_Witness ==
    /\ pc[1] = "Done"
    /\ raised[1] \in ConvertErrors
    /\ response[1].error = "Unable to get page count"
    /\ created[1] # 0

\* C6: once a call is in a terminal state the temporary file created for
\* its document is gone and was removed exactly once, on every exit path,
\* a failure inside download_document after the file exists included.
C6_TempFileRemovedOnce ==
    \A c \in Calls :
        (pc[c] = "Done" /\ created[c] # 0) =>
            /\ created[c] \notin files
            /\ removes[c] = 1

\* the token estimates of page k of call c
InputEstimate(c, k) == (PromptLen \div 4) + (images[c][k].b64_len \div 1000)
OutputEstimate(c, k) == log[c][k].reply.text_len \div 4

RECURSIVE SumInput(_, _)
SumInput(c, pages) ==
    IF pages = {} THEN 0
    ELSE LET k == CHOOSE x \in pages : TRUE
         IN  InputEstimate(c, k) + SumInput(c, pages \ {k})

RECURSIVE SumOutput(_, _)
SumOutput(c, pages) ==
    IF pages = {} THEN 0
    ELSE LET k == CHOOSE x \in pages : TRUE
         IN  OutputEstimate(c, k) + SumOutput(c, pages \ {k})

\* the pages of call c whose model call returned status 200 with a
\* response text
AnsweredPages(c) ==
    {k \in 1..Len(log[c]) : log[c][k].reply.kind \in {"undecodable", "json"}}

C8_AllPagesCounted ==
    Succeeded(1) =>
        /\ response[1].token_usage.input_tokens = SumInput(1, 1..Len(images[1]))
        /\ response[1].token_usage.output_tokens = SumOutput(1, 1..Len(images[1]))

\* C8 amended: at Done(Success) input_tokens and output_tokens are the sums
\* of the estimates over the pages whose model call returned status 200
\* with a response text, counted once each, kept or not (no items, or text
\* that is not JSON); a page whose call raised, returned another status or a
\* body that is not JSON adds nothing.
C8_AnsweredPagesCounted ==
    Succeeded(1) =>
        /\ response[1].token_usage.input_tokens = SumInput(1, AnsweredPages(1))
        /\ response[1].token_usage.output_tokens = SumOutput(1, AnsweredPages(1))

\* three pages: undecodable text, a refused connection, a kept record
C8_Witness ==
    /\ Succeeded(1)
    /\ Len(images[1]) = 3
    /\ log[1][1].reply.kind = "undecodable"
    /\ log[1][2].reply.kind = "ConnectionError"
    /\ kept[1] = <<3>>
    /\ response[1].token_usage.input_tokens =
           InputEstimate(1, 1) + InputEstimate(1, 3)
    /\ response[1].token_usage.output_tokens = 4 + OutputEstimate(1, 3)

\* C9: a page whose record has no bill_items, or an empty one, is never
\* appended: it is not in pagewise_line_items, is not classified, its model
\* call is not repeated and the result carries no error for it.
C9_EmptyPagesDropped ==
    \A c \in Calls :
        /\ Len(pagewise_results[c]) = Len(kept[c])
        /\ \A k \in 1..Len(log[c]) :
               ~Yielded(log[c][k].reply) =>
                   /\ \A r \in 1..Len(kept[c]) : kept[c][r] # log[c][k].page
                   /\ log[c][k].page \notin classified[c]
                   /\ Cardinality({j \in 1..Len(log[c]) :
                                      log[c][j].page = log[c][k].page}) = 1
                   /\ (pc[c] = "Done" /\ Rasterized(c)) =>
                          /\ response[c].is_success
                          /\ "error" \notin DOMAIN response[c]
                          /\ Len(response[c].data.pagewise_line_items) = Len(kept[c])

\* a record without bill_items on page 1, an empty list on page 2, and a
\* kept page 3
C9_Witness ==
    /\ Succeeded(1)
    /\ Len(images[1]) = 3
    /\ log[1][1].reply.kind = "json"
    /\ "bill_items" \notin DOMAIN log[1][1].reply.data
    /\ log[1][2].reply.kind = "json"
    /\ "bill_items" \in DOMAIN log[1][2].reply.data
    /\ log[1][2].reply.data.bill_items = <<>>
    /\ kept[1] = <<3>>
    /\ classified[1] = {3}

\* the kind the content-type header names, <<>> if none
HeaderKind(content_type) ==
    IF Contains(content_type, S_pdf) THEN Ext_pdf
    ELSE IF Contains(content_type, S_png) THEN Ext_png
    ELSE IF Contains(content_type, S_jpg) \/ Contains(content_type, S_jpeg)
    THEN Ext_jpg
    ELSE <<>>

\* the kind the URL suffix names, <<>> if none
SuffixKind(url) ==
    IF EndsWith(Lower(url), Ext_pdf) THEN Ext_pdf
    ELSE IF EndsWith(Lower(url), Ext_png) THEN Ext_png
    ELSE IF EndsWith(Lower(url), Ext_jpg) \/ EndsWith(Lower(url), Ext_jpeg)
    THEN Ext_jpg
    ELSE <<>>

\* header first, then suffix, then pdf
KindByPriority(content_type, url) ==
    IF HeaderKind(content_type) # <<>> THEN HeaderKind(content_type)
    ELSE IF SuffixKind(url) # <<>> THEN SuffixKind(url)
    ELSE Ext_pdf

\* C10: download_document stores the document under the kind the
\* content-type header names, whatever the URL suffix is; the suffix decides
\* only when the header names no kind, and pdf is chosen only when neither
\* decides (image/png for a URL ending in .pdf is stored as png).
C10_HeaderBeforeSuffix ==
    [][\A c \in Calls :
          (pc[c] = "Storing" /\ pc'[c] = "Rasterizing") =>
              temp_file'[c].suffix = KindByPriority(dl[c].content_type, dl[c].url)]_vars


\* the name holds one of the pharmacy words, whatever the case of its letters
HoldsPharmacyWord(name) ==
    \E word \in PharmacyWords :
        \E i \in 0..(Len(name) - Len(word)) :
            \A j \in 1..Len(word) : LowerChar(name[i + j]) = word[j]

\* the label the first-match priority gives to a list of items
ClaimLabel(items) ==
    LET pharmacy == \E k \in 1..Len(items) :
                        /\ "item_name" \in DOMAIN items[k]
                        /\ HoldsPharmacyWord(items[k].item_name)
    IN  CASE Len(items) = 0 -> "Bill Detail"
          [] Len(items) > 0 /\ pharmacy -> "Pharmacy"
          [] Len(items) > 0 /\ ~pharmacy /\ Len(items) < 3 -> "Final Bill"
          [] OTHER -> "Bill Detail"

\* C11: determine_page_type gives a record exactly one label, chosen by
\* first match: no items, "Bill Detail"; else a pharmacy word in the name of
\* any item, "Pharmacy", however many items there are; else fewer than three
\* items, "Final Bill"; else "Bill Detail". The label is a function of the
\* items alone and the record is otherwise as it was.
C11_FirstMatchLabel ==
    pc[1] = "Classified" =>
        LET record == pagewise_results[1][1]
            items == IF "bill_items" \in DOMAIN record THEN record.bill_items
                     ELSE <<>>
        IN  /\ record.page_type \in {"Bill Detail", "Pharmacy", "Final Bill"}
            /\ record.page_type = ClaimLabel(items)
            /\ record.page_no \in {"1", "2"}

\* three items, the last an uppercase pharmacy line: Pharmacy, not Bill Detail
C11_Witness ==
    /\ pc[1] = "Classified"
    /\ "bill_items" \in DOMAIN pagewise_results[1][1]
    /\ pagewise_results[1][1].bill_items = <<ItemA, ItemC, ItemTablets>>
    /\ pagewise_results[1][1].page_type = "Pharmacy"

\* the exception that ended the call left extract_from_image: it came from
\* image_to_base64, the only statement outside its try block
RaisedByExtractFromImage(c) == pc[c] = "Done" /\ raised[c] = EncodeError

\* C12: extract_from_image never raises to extract_bill_data, and for a
\* network error, a timeout, a status other than 200 or a text that is not
\* JSON it returns exactly {page_no: str(n), bill_items: []} for page n.
C12_NeverRaises ==
    \A c \in Calls :
        /\ ~RaisedByExtractFromImage(c)
        /\ \A k \in 1..Len(log[c]) :
               CallFailed(log[c][k].reply) =>
                   log[c][k].page_data =
                       [page_no |-> ToString(log[c][k].page), bill_items |-> <<>>]

\* C13: extract_bill_data resets the counters when it begins, so the
\* token_usage of a call made after other calls on the same extractor,
\* whether it succeeds or fails, is the sum of the estimates of its own
\* answered pages and holds nothing of what the extractor counted before.
C13_NothingCarriedOver ==
    \A c \in Calls :
        pc[c] = "Done" =>
            LET usage == response[c].token_usage
                inp == SumInput(c, AnsweredPages(c))
                out == SumOutput(c, AnsweredPages(c))
            IN  /\ usage.input_tokens = inp
                /\ usage.output_tokens = out
                /\ usage.total_tokens = inp + out

\* a call that began on an extractor with counters left by an earlier call
\* and reports the estimates of its single page
C13_Witness ==
    /\ Succeeded(1)
    /\ stale[1]
    /\ Len(images[1]) = 1
    /\ AnsweredPages(1) = {1}
    /\ response[1].token_usage.total_tokens =
           InputEstimate(1, 1) + OutputEstimate(1, 1)


\* the page loop of call c has run to its end
LoopDone(c) == pc[c] \in {"Deduplicating", "Assembling"} \/ Succeeded(c)

\* C14: within one call nothing is tried twice and the pages are handled in
\* order: the document is fetched at most once, and the model invocations
\* made so far are those of pages 1, 2, ..., k, one each, page k + 1 being
\* invoked only when page k has returned or failed; when the loop has run
\* to its end k is the number of pages, whichever pages failed.
C14_NoRetrySerialPages ==
    \A c \in Calls :
        /\ fetches[c] <= 1
        /\ Len(log[c]) <= Len(images[c])
        /\ \A k \in 1..Len(log[c]) : log[c][k].page = k
        /\ pc[c] = "PerPageProcessing" => page_idx[c] = Len(log[c])
        /\ LoopDone(c) => Len(log[c]) = Len(images[c])

\* three pages, the first two failing: one fetch, one invocation per page
C14_Witness ==
    /\ Succeeded(1)
    /\ fetches[1] = 1
    /\ Len(images[1]) = 3
    /\ Len(log[1]) = 3
    /\ log[1][1].reply.kind = "Timeout"
    /\ log[1][2].reply.kind = "non200"
    /\ log[1][3].page = 3

\* strictly increasing page numbers
Increasing(pages) == \A a, b \in 1..Len(pages) : a < b => pages[a] < pages[b]

\* C15: in a successful result the records stand in increasing page order
\* and the page_no of each is the string of the 1-based index of the page
\* it was extracted from, whatever page_no the model's reply held or left out.
C15_PageNoIsPageIndex ==
    \A c \in Calls :
        Succeeded(c) =>
            LET result == response[c].data.pagewise_line_items
            IN  /\ Len(result) = Len(kept[c])
                /\ Increasing(kept[c])
                /\ \A r \in 1..Len(result) :
                       /\ "page_no" \in DOMAIN result[r]
                       /\ result[r].page_no = ToString(kept[c][r])

\* the place of a state of extract_bill_data in the order Init, Acquiring,
\* Rasterizing, PerPageProcessing, Deduplicating, Assembling, Done; the
\* writing of the temporary file is part of Acquiring
Rank(state) ==
    CASE state = "Init" -> 1
      [] state \in {"Acquiring", "Storing"} -> 2
      [] state = "Rasterizing" -> 3
      [] state = "PerPageProcessing" -> 4
      [] state = "Deduplicating" -> 5
      [] state = "Assembling" -> 6
      [] state = "Done" -> 7
      [] OTHER -> 0

\* a step of a running call stays in its state, moves to the next one, or
\* jumps to Done with the failure dict; Done is entered with a dict
ForwardStep(c) ==
    (pc[c] \notin {"idle", "Done"}) =>
        /\ \/ Rank(pc'[c]) = Rank(pc[c])
           \/ Rank(pc'[c]) = Rank(pc[c]) + 1
           \/ pc'[c] = "Done" /\ ~response'[c].is_success
        /\ pc'[c] = "Done" =>
               /\ {"is_success", "token_usage", "data"} \subseteq DOMAIN response'[c]
               /\ response'[c].is_success <=> pc[c] = "Assembling"
               /\ ~response'[c].is_success => "error" \in DOMAIN response'[c]

\* C16: a call that has begun reaches Done(Success) or Done(Failure) and
\* returns a dict instead of raising; on the way it passes through Init,
\* Acquiring, Rasterizing, PerPageProcessing, Deduplicating, Assembling in
\* that order only, never back, the one shortcut being the jump to
\* Done(Failure).
C16_ForwardToDone ==
    /\ [][\A c \in Calls : ForwardStep(c)]_vars
    /\ (pc[1] = "Init") ~> (pc[1] = "Done")

\* a call that went through every state to Done(Success) over two pages
C16_Witness ==
    /\ Succeeded(1)
    /\ Len(log[1]) = 2
    /\ all_pages[1] # <<>>
    /\ removes[1] = 1

\* the document is not empty and starts with http:// or https://
WellFormedUrl(document) ==
    /\ Len(document) > 0
    /\ \/ Len(document) >= 7 /\ SubSeq(document, 1, 7) = Scheme_http
       \/ Len(document) >= 8 /\ SubSeq(document, 1, 8) = Scheme_https

\* what a rejection leaves alone: the counters, the files, the calls
PipelineUntouched ==
    UNCHANGED <<extractor_vars, files, pc, local_vars, history_vars, fetches>>

\* C17: the handler answers a request only in three ways. A document that
\* is empty or has no http:// or https:// prefix gets status 400 and the
\* pipeline does not run: no download, no reset of the counters, no model
\* call. Only a document that passes enters extract_bill_data, and what it
\* returns is sent unchanged as the body, with status 200 when is_success
\* is true and 500 when it is false.
C17_ValidationAndStatus ==
    [][\A c \in Calls :
          /\ (pc[c] = "idle" /\ http'[c] # http[c] /\ pc'[c] = "idle") =>
                 /\ http'[c].status = 400
                 /\ ~WellFormedUrl(http'[c].document)
                 /\ PipelineUntouched
          /\ (pc[c] = "idle" /\ pc'[c] # "idle") =>
                 /\ pc'[c] = "Init"
                 /\ WellFormedUrl(dl'[c].url)
          /\ (pc[c] = "Done" /\ pc'[c] # "Done") =>
                 /\ http'[c].body = response[c]
                 /\ http'[c].status = IF response[c].is_success THEN 200 ELSE 500
          /\ http'[c].status = 400 => ~WellFormedUrl(http'[c].document)]_vars

\* a request with an uppercase scheme was turned away while the extractor
\* holds the counters of an earlier call
C17_Witness ==
    /\ http[1].status = 400
    /\ http[1].document = Doc_HTTP
    /\ pc[1] = "idle"
    /\ total_tokens > 0

\* C18: once the document is rasterized, nothing the backend answers for a
\* page aborts the call: whatever text or JSON value comes back (JSON that
\* is no object, bill_items that is no list of objects, items without
\* item_name, item_amount or item_rate, amounts that are no numbers), every
\* page is invoked and the call ends in Done(Success).
C18_ReplyContentNeverAborts ==
    \A c \in Calls :
        (pc[c] = "Done" /\ Rasterized(c)) =>
            /\ response[c].is_success
            /\ Len(log[c]) = Len(images[c])

\* C19: every record of pagewise_line_items in a successful result has at
\* least one bill item; a page whose items were all removed as duplicates
\* of earlier pages is not in the result.
C19_NoEmptyRecordInResult ==
    \A c \in Calls :
        Succeeded(c) =>
            \A r \in 1..Len(response[c].data.pagewise_line_items) :
                response[c].data.pagewise_line_items[r].bill_items # <<>>

\* C20: in a successful result the page_type of each record is the label of
\* the bill_items the record carries in the result, that is, of the items
\* left after deduplication.
C20_LabelMatchesResultItems ==
    \A c \in Calls :
        Succeeded(c) =>
            \A r \in 1..Len(response[c].data.pagewise_line_items) :
                LET record == response[c].data.pagewise_line_items[r]
                IN  record.page_type = ClaimLabel(record.bill_items)

\* the two records agree on every key but bill_items
SameButItems(before, after) ==
    /\ DOMAIN after = DOMAIN before
    /\ \A key \in DOMAIN before \ {"bill_items"} : after[key] = before[key]

\* C21: deduplicate_items changes the bill_items lists and nothing else:
\* the result has the same number of records in the same order, each with
\* the page_no and page_type it had, and the token counters are as they were.
C21_DedupFrame ==
    [][\A c \in Calls :
          (pc[c] = "Deduplicating" /\ pc'[c] = "Assembling") =>
              /\ Len(pagewise_results'[c]) = Len(pagewise_results[c])
              /\ \A r \in 1..Len(pagewise_results[c]) :
                     SameButItems(pagewise_results[c][r], pagewise_results'[c][r])
              /\ UNCHANGED <<input_tokens, output_tokens, total_tokens>>]_vars

\* two records, a pharmacy page and a page that lost its only item to it,
\* the second labelled with another page's number
C21_Witness ==
    /\ pc[1] = "Assembling"
    /\ Len(all_pages[1]) = 2
    /\ all_pages[1][1].page_type = "Pharmacy"
    /\ all_pages[1][2].page_no = "3"
    /\ all_pages[1][2].bill_items = <<ItemC>>
    /\ pagewise_results[1][2].bill_items = <<>>
    /\ pagewise_results[1][2].page_no = "3"
    /\ total_tokens > 0

\* the call has passed its reset and has not returned yet
PastReset(c) == pc[c] \notin {"idle", "Init"}

\* C22: in every state of the extractor, after construction, after a reset,
\* after any number of pages and calls, total_tokens is input_tokens +
\* output_tokens and none of the three is negative; while a call runs past
\* its reset none of them decreases.
C22_CountersConsistent ==
    /\ [](/\ total_tokens = input_tokens + output_tokens
          /\ input_tokens >= 0
          /\ output_tokens >= 0
          /\ total_tokens >= 0)
    /\ [][\A c \in Calls :
             (PastReset(c) /\ PastReset(c)') =>
                 /\ input_tokens' >= input_tokens
                 /\ output_tokens' >= output_tokens
                 /\ total_tokens' >= total_tokens]_vars

\* the second page of a call that began with counters left by an earlier
\* call has been counted
C22_Witness ==
    /\ pc[1] = "PerPageProcessing"
    /\ stale[1]
    /\ page_idx[1] = 2
    /\ AnsweredPages(1) = {1, 2}
    /\ input_tokens = InputEstimate(1, 1) + InputEstimate(1, 2)
    /\ total_tokens = input_tokens + output_tokens
    /\ output_tokens > 0
====
